---- MODULE Spec2Model ----
(***************************************************************************)
(* Bulk-create task subsystem of the listing service.                      *)
(*   src/models/bulk_create.py : task store (dict + lock) and the          *)
(*                               background worker                         *)
(*   src/main.py               : POST /listing/bulk-create and             *)
(*                               GET /bulk-create/task/{task_id}           *)
(* Python objects are references: the store maps a task_id to the one      *)
(* BulkCreateTaskStatus object built by the submit handler, and            *)
(* get_bulk_create_task returns that same object.  uuid4 ids are fresh, so *)
(* a task_id is stored once and the object is identified by its task_id.   *)
(***************************************************************************)
EXTENDS Integers, Sequences, FiniteSets, TLC

\* ------------------------------------------------------------------ bounds
\* listings submitted in one run, over all batches
MaxItems == 2

\* the task ids uuid4 hands out in a run, in the order it hands them out
TaskOrder == <<"t1", "t2">>
TaskIds == {TaskOrder[j] : j \in DOMAIN TaskOrder}

\* ------------------------------------------------------------ data model
\* Optional[...] fields: None is the empty sequence, a value v is <<v>>
None == << >>
Some(v) == <<v>>
IsSet(o) == o # None

\* BulkCreateTaskStatus field order (pydantic serialises in this order)
Fields == <<"task_id", "status", "message", "created_at", "completed_at", "results", "errors">>

\* the strings of the message field, kept structured
Msg(kind, k, n, pct, e) == [kind |-> kind, k |-> k, n |-> n, pct |-> pct, e |-> e]

\* f"{progress:.1f}" of ((i + 1) / len(listings)) * 100, in tenths of a percent
Percent(k, n) ==
    LET q == (k * 1000) \div n
        r == (k * 1000) % n
    IN  IF 2 * r > n THEN q + 1
        ELSE IF 2 * r = n THEN q + (q % 2)
        ELSE q

\* faulty variant: the record is stored as already processing
NewTaskStatusStarted(t, n, now) ==
    [task_id      |-> t,
     status       |-> "processing",
     message      |-> Msg("queued", 0, n, 0, ""),
     created_at   |-> now,
     completed_at |-> None,
     results      |-> None,
     errors       |-> None]

\* BulkCreateTaskStatus(task_id, status="pending", message=..., created_at=now)
NewTaskStatus(t, n, now) ==
    [task_id      |-> t,
     status       |-> "pending",
     message      |-> Msg("queued", 0, n, 0, ""),
     created_at   |-> now,
     completed_at |-> None,
     results      |-> None,
     errors       |-> None]

\* faulty variant: the response repeats the stored record's message
BulkCreateTaskResponseQueued(t, n) ==
    [task_id |-> t,
     status  |-> "pending",
     message |-> Msg("queued", 0, n, 0, "")]

\* BulkCreateTaskResponse(task_id, status="pending", message=f"Bulk creation
\* started. Use GET /bulk-create/task/{task_id} to check progress.")
BulkCreateTaskResponse(t, n) ==
    [task_id |-> t,
     status  |-> "pending",
     message |-> Msg("started", 0, 0, 0, t)]

\* faulty variant: the first update stamps the record again
ProcessingUpdateRestamp(n) ==
    [keys |-> <<"status", "message", "created_at">>,
     kw   |-> [status     |-> "processing",
               message    |-> Msg("processing", 0, n, 0, ""),
               created_at |-> 0]]

\* keyword arguments of the four update_bulk_create_task calls, in call order
ProcessingUpdate(n) ==
    [keys |-> <<"status", "message">>,
     kw   |-> [status  |-> "processing",
               message |-> Msg("processing", 0, n, 0, "")]]

\* faulty variant: the message counts the items still to do
ProgressUpdateRemaining(k, n) ==
    [keys |-> <<"message">>,
     kw   |-> [message |-> Msg("progress", n - k, n, Percent(n - k, n), "")]]

\* faulty variant: the update after the last item already reports completion
ProgressUpdateCompletes(k, n) ==
    IF k = n
    THEN [keys |-> <<"status", "message">>,
          kw   |-> [status  |-> "completed",
                    message |-> Msg("progress", k, n, Percent(k, n), "")]]
    ELSE [keys |-> <<"message">>,
          kw   |-> [message |-> Msg("progress", k, n, Percent(k, n), "")]]

ProgressUpdate(k, n) ==
    [keys |-> <<"message">>,
     kw   |-> [message |-> Msg("progress", k, n, Percent(k, n), "")]]

\* faulty variant: errors is the list itself, empty or not
CompletedUpdateEmptyErrors(now, created, errs) ==
    [keys |-> <<"status", "completed_at", "message", "results", "errors">>,
     kw   |-> [status       |-> "completed",
               completed_at |-> Some(now),
               message      |-> Msg("created", Len(created), 0, 0, ""),
               results      |-> Some([created_count    |-> Len(created),
                                      error_count      |-> Len(errs),
                                      created_listings |-> created]),
               errors       |-> Some(errs)]]

\* faulty variant: error_count is taken from the wrong list
CompletedUpdateMiscount(now, created, errs) ==
    [keys |-> <<"status", "completed_at", "message", "results", "errors">>,
     kw   |-> [status       |-> "completed",
               completed_at |-> Some(now),
               message      |-> Msg("created", Len(created), 0, 0, ""),
               results      |-> Some([created_count    |-> Len(created),
                                      error_count      |-> Len(created),
                                      created_listings |-> created]),
               errors       |-> IF errs # << >> THEN Some(errs) ELSE None]]

CompletedUpdate(now, created, errs) ==
    [keys |-> <<"status", "completed_at", "message", "results", "errors">>,
     kw   |-> [status       |-> "completed",
               completed_at |-> Some(now),
               message      |-> Msg("created", Len(created), 0, 0, ""),
               results      |-> Some([created_count    |-> Len(created),
                                      error_count      |-> Len(errs),
                                      created_listings |-> created]),
               errors       |-> IF errs # << >> THEN Some(errs) ELSE None]]

\* faulty variant: the failed update carries no errors list
FailedUpdateNoErrors(now, e) ==
    [keys |-> <<"status", "completed_at", "message">>,
     kw   |-> [status       |-> "failed",
               completed_at |-> Some(now),
               message      |-> Msg("failed", 0, 0, 0, e)]]

\* faulty variant: the failed update forgets completed_at
FailedUpdateNoStamp(now, e) ==
    [keys |-> <<"status", "message", "errors">>,
     kw   |-> [status  |-> "failed",
               message |-> Msg("failed", 0, 0, 0, e),
               errors  |-> Some(<<[listing |-> 0, e |-> e]>>)]]

FailedUpdate(now, e) ==
    [keys |-> <<"status", "completed_at", "message", "errors">>,
     kw   |-> [status       |-> "failed",
               completed_at |-> Some(now),
               message      |-> Msg("failed", 0, 0, 0, e),
               errors       |-> Some(<<[listing |-> 0, e |-> e]>>)]]

NoUpdate == [keys |-> << >>, kw |-> << >>]

\* ------------------------------------------------------------------ state
VARIABLES
    bulk_create_tasks,  \* _bulk_create_tasks: task_id -> task status object
    task_lock,          \* _task_lock: "free" or the task whose worker holds it
    pc,                 \* per task: position of the submit handler / worker
    listings,           \* per task: len(listings) of the submitted payload
    upd,                \* per task: the update in progress (kwargs not yet applied)
    ret,                \* per task: where the worker continues after the update
    conn,               \* per task: "none" | "open" | "closed" | "close_failed"
    cursor,             \* per task: "none" | "open" | "closed" | "close_failed"
    i,                  \* per task: loop index
    created_listings,   \* per task: local list of {id, index}
    errors,             \* per task: local list of item error strings
    exc,                \* per task: the exception in flight / last caught ("" = none)
    clock,              \* datetime.now()
    lastrowid,          \* the datastore's auto-increment counter
    uncommitted,        \* per task: row ids inserted on its connection, not committed
    db_rows,            \* committed rows: set of [id, task]
    committed,          \* per task: conn.commit() returned
    attempts,           \* per task: the cursor.execute calls made, <<index, ok>>
    rd,                 \* the status reader (GET handler and response serialisation)
    accepted,           \* per task: the body of the 202 response, once returned
    poll                \* the last status response sent and whether the store was
                        \* written since the call that produced it began

vars == <<bulk_create_tasks, task_lock, pc, listings, upd, ret, conn, cursor, i,
          created_listings, errors, exc, clock, lastrowid, uncommitted, db_rows,
          committed, attempts, rd, accepted, poll>>

workerVars == <<listings, conn, cursor, i, created_listings, errors, exc,
                lastrowid, uncommitted, db_rows, committed, attempts>>

Idle == [st |-> "idle", ref |-> "", k |-> 0, view |-> << >>]

\* no status call is in progress or remembered: the store was written since
NoPoll == [clean |-> FALSE, last |-> None]

Init ==
    /\ bulk_create_tasks = << >>
    /\ task_lock = "free"
    /\ pc = [t \in TaskIds |-> "unused"]
    /\ listings = [t \in TaskIds |-> 0]
    /\ upd = [t \in TaskIds |-> NoUpdate]
    /\ ret = [t \in TaskIds |-> ""]
    /\ conn = [t \in TaskIds |-> "none"]
    /\ cursor = [t \in TaskIds |-> "none"]
    /\ i = [t \in TaskIds |-> 0]
    /\ created_listings = [t \in TaskIds |-> << >>]
    /\ errors = [t \in TaskIds |-> << >>]
    /\ exc = [t \in TaskIds |-> ""]
    /\ clock = 1
    /\ lastrowid = 0
    /\ uncommitted = [t \in TaskIds |-> {}]
    /\ db_rows = {}
    /\ committed = [t \in TaskIds |-> FALSE]
    /\ attempts = [t \in TaskIds |-> << >>]
    /\ rd = Idle
    /\ accepted = [t \in TaskIds |-> None]
    /\ poll = NoPoll

\* ------------------------------------------------------------ task store
\* faulty variant: the dictionary is rebuilt around the new record
store_bulk_create_task_rebuild(tasks, t, rec) ==
    [x \in {t} |-> rec]

\* faulty variant: the record never reaches the dictionary
store_bulk_create_task_dropped(tasks, t, rec) == tasks

\* _bulk_create_tasks[task_id] = task_status
store_bulk_create_task(tasks, t, rec) ==
    [x \in (DOMAIN tasks) \cup {t} |-> IF x = t THEN rec ELSE tasks[x]]

\* faulty variant: without the membership test an absent id gets a record
setattr_task_upsert(tasks, t, key, value) ==
    [x \in (DOMAIN tasks) \cup {t} |->
        IF x # t THEN tasks[x]
        ELSE IF t \in DOMAIN tasks
             THEN [f \in DOMAIN tasks[t] |-> IF f = key THEN value ELSE tasks[t][f]]
             ELSE [f \in {key} |-> value]]

\* setattr(_bulk_create_tasks[task_id], key, value), guarded by the membership test
setattr_task(tasks, t, key, value) ==
    IF t \in DOMAIN tasks
    THEN [tasks EXCEPT ![t] = [f \in DOMAIN tasks[t] |->
                                  IF f = key THEN value ELSE tasks[t][f]]]
    ELSE tasks

\* a call update_bulk_create_task(task_id, **u) made by the worker of t,
\* after which the worker continues at `after`
CallUpdate(t, u, after) ==
    /\ upd' = [upd EXCEPT ![t] = u]
    /\ ret' = [ret EXCEPT ![t] = after]
    /\ pc' = [pc EXCEPT ![t] = "update"]

\* faulty variant: the lock is acquired by hand and not released on return
update_bulk_create_task_keeps_lock(t) ==
    /\ pc[t] = "update"
    /\ upd[t].keys # << >>
    /\ task_lock \in {"free", t}
    /\ LET key == Head(upd[t].keys)
           rest == Tail(upd[t].keys)
       IN  /\ bulk_create_tasks' =
                 setattr_task(bulk_create_tasks, t, key, upd[t].kw[key])
           /\ task_lock' = t
           /\ IF rest = << >>
              THEN /\ upd' = [upd EXCEPT ![t] = NoUpdate]
                   /\ pc' = [pc EXCEPT ![t] = ret[t]]
              ELSE /\ upd' = [upd EXCEPT ![t].keys = rest]
                   /\ pc' = pc
    /\ poll' = NoPoll
    /\ UNCHANGED <<ret, clock, rd, accepted, workerVars>>

\* update_bulk_create_task: `with _task_lock:` then one setattr per keyword.
\* The first step takes the lock, the last one releases it.
update_bulk_create_task(t) ==
    /\ pc[t] = "update"
    /\ upd[t].keys # << >>
    /\ task_lock \in {"free", t}
    /\ LET key == Head(upd[t].keys)
           rest == Tail(upd[t].keys)
       IN  /\ bulk_create_tasks' =
                 setattr_task(bulk_create_tasks, t, key, upd[t].kw[key])
           /\ IF rest = << >>
              THEN /\ task_lock' = "free"
                   /\ upd' = [upd EXCEPT ![t] = NoUpdate]
                   /\ pc' = [pc EXCEPT ![t] = ret[t]]
              ELSE /\ task_lock' = t
                   /\ upd' = [upd EXCEPT ![t].keys = rest]
                   /\ pc' = pc
    /\ poll' = NoPoll
    /\ UNCHANGED <<ret, clock, rd, accepted, workerVars>>


\* ------------------------------------------------- POST /listing/bulk-create
\* str(uuid.uuid4()): an id never handed out before
uuid4_fresh(t) ==
    /\ pc[t] = "unused"
    /\ \A j, k \in DOMAIN TaskOrder : (TaskOrder[k] = t /\ j < k) => pc[TaskOrder[j]] # "unused"

\* listings submitted so far
RECURSIVE TotalListings(_)
TotalListings(S) ==
    IF S = {} THEN 0
    ELSE LET t == CHOOSE x \in S : TRUE IN listings[t] + TotalListings(S \ {t})

\* bulk_create_listings up to background_tasks.add_task: a fresh uuid4, the
\* pending record, store_bulk_create_task under the lock
bulk_create_listings(t, n) ==
    /\ uuid4_fresh(t)
    /\ task_lock = "free"
    /\ bulk_create_tasks' =
          store_bulk_create_task(bulk_create_tasks, t, NewTaskStatus(t, n, clock))
    /\ clock' = clock + 1
    /\ listings' = [listings EXCEPT ![t] = n]
    /\ pc' = [pc EXCEPT ![t] = "respond"]
    /\ poll' = NoPoll
    /\ UNCHANGED <<task_lock, upd, ret, conn, cursor, i, created_listings, errors,
                   exc, lastrowid, uncommitted, db_rows, committed, attempts, rd,
                   accepted>>

\* the handler returns its 202 response; the background task runs after it
SendAccepted(t) ==
    /\ pc[t] = "respond"
    /\ accepted' = [accepted EXCEPT ![t] = Some(BulkCreateTaskResponse(t, listings[t]))]
    /\ pc' = [pc EXCEPT ![t] = "queued"]
    /\ UNCHANGED <<bulk_create_tasks, task_lock, upd, ret, clock, rd, poll, workerVars>>

\* process_bulk_create_listings(task_id, listings) called by other code than the
\* HTTP handler, for a task_id under which nothing was stored
call_process_bulk_create_listings(t, n) ==
    /\ uuid4_fresh(t)
    /\ listings' = [listings EXCEPT ![t] = n]
    /\ pc' = [pc EXCEPT ![t] = "queued"]
    /\ UNCHANGED <<bulk_create_tasks, task_lock, upd, ret, conn, cursor, i,
                   created_listings, errors, exc, clock, lastrowid, uncommitted,
                   db_rows, committed, attempts, rd, accepted, poll>>

\* ------------------------------------------- process_bulk_create_listings
\* where control goes when a statement raises
\*   faulty variant: an item's exception leaves the loop
ItemHandlerAbort == "finally"
\*   inside the per-item try (line 106)
ItemHandler == "loop"
\*   inside the inner try, outside the per-item try: the finally block runs
BatchHandler == "finally"
\*   faulty variant: the finally block is outside every try
FinallyHandlerOutside == "escaped"
\*   inside the finally block: straight to the outer except
FinallyHandler == "except"
\*   faulty variant: the exception in flight is dropped after the finally block
AfterFinallySwallow(e) == "done"
\*   the finally block ran to its end: re-raise what was in flight, or fall through
AfterFinally(e) == IF e # "" THEN "except" ELSE "done"

\* faulty variant: an empty batch is refused as an error
BeginWorkerRejectsEmpty(t) ==
    /\ pc[t] = "queued"
    /\ IF listings[t] = 0
       THEN CallUpdate(t, FailedUpdate(0, "empty batch"), "done")
       ELSE CallUpdate(t, ProcessingUpdate(listings[t]), "get_connection")
    /\ UNCHANGED <<bulk_create_tasks, task_lock, clock, rd, accepted, poll, workerVars>>

\* lines 56-61: the first update
BeginWorker(t) ==
    /\ pc[t] = "queued"
    /\ CallUpdate(t, ProcessingUpdate(listings[t]), "get_connection")
    /\ UNCHANGED <<bulk_create_tasks, task_lock, clock, rd, accepted, poll, workerVars>>

\* line 67: conn = db_pool.get_connection()
GetConnection(t) ==
    /\ pc[t] = "get_connection"
    /\ \E ok \in BOOLEAN :
          IF ok
          THEN /\ conn' = [conn EXCEPT ![t] = "open"]
               /\ pc' = [pc EXCEPT ![t] = "cursor"]
               /\ exc' = exc
          ELSE /\ exc' = [exc EXCEPT ![t] = "get_connection failed"]
               /\ pc' = [pc EXCEPT ![t] = BatchHandler]
               /\ conn' = conn
    /\ UNCHANGED <<bulk_create_tasks, task_lock, upd, ret, clock, rd, accepted, poll, listings, cursor,
                   i, created_listings, errors, lastrowid, uncommitted, db_rows,
                   committed, attempts>>

\* lines 68-71: cursor = conn.cursor(); created_listings = []; errors = []
OpenCursor(t) ==
    /\ pc[t] = "cursor"
    /\ \E ok \in BOOLEAN :
          IF ok
          THEN /\ cursor' = [cursor EXCEPT ![t] = "open"]
               /\ pc' = [pc EXCEPT ![t] = "loop"]
               /\ exc' = exc
          ELSE /\ exc' = [exc EXCEPT ![t] = "cursor failed"]
               /\ pc' = [pc EXCEPT ![t] = BatchHandler]
               /\ cursor' = cursor
    /\ UNCHANGED <<bulk_create_tasks, task_lock, upd, ret, clock, rd, accepted, poll, listings, conn,
                   i, created_listings, errors, lastrowid, uncommitted, db_rows,
                   committed, attempts>>

\* faulty variant: the item is named by its 0-based index
ItemErrorZeroBased(idx, e) == [listing |-> idx, e |-> e]

\* the item error string f"Listing {i + 1}: {str(e)}"
ItemError(idx, e) == [listing |-> idx + 1, e |-> e]

\* faulty variant: the created entry carries the 1-based position
CreatedEntryOneBased(id, idx) == [id |-> id, index |-> idx + 1]

\* created_listings.append({"id": listing_id, "index": i})
CreatedEntry(id, idx) == [id |-> id, index |-> idx]

\* lines 74-108: one iteration of the loop, item i
ProcessItem(t) ==
    /\ pc[t] = "loop"
    /\ i[t] < listings[t]
    /\ \E ok \in BOOLEAN :
          /\ attempts' = [attempts EXCEPT ![t] = Append(@, <<i[t], ok>>)]
          /\ IF ok
             THEN /\ lastrowid' = lastrowid + 1
                  /\ uncommitted' = [uncommitted EXCEPT ![t] = @ \cup {lastrowid + 1}]
                  /\ created_listings' = [created_listings EXCEPT ![t] =
                        Append(@, CreatedEntry(lastrowid + 1, i[t]))]
                  /\ CallUpdate(t, ProgressUpdate(i[t] + 1, listings[t]), "loop")
                  /\ UNCHANGED errors
             ELSE /\ errors' = [errors EXCEPT ![t] =
                        Append(@, ItemError(i[t], "execute failed"))]
                  /\ pc' = [pc EXCEPT ![t] = ItemHandler]
                  /\ UNCHANGED <<lastrowid, uncommitted, created_listings, upd, ret>>
    /\ i' = [i EXCEPT ![t] = @ + 1]
    /\ UNCHANGED <<bulk_create_tasks, task_lock, clock, rd, accepted, poll, listings, conn, cursor,
                   exc, db_rows, committed>>

\* lines 110-123: conn.commit(), then the completed update
Commit(t) ==
    /\ pc[t] = "loop"
    /\ i[t] = listings[t]
    /\ \E ok \in BOOLEAN :
          IF ok
          THEN /\ db_rows' = db_rows \cup {[id |-> r, task |-> t] : r \in uncommitted[t]}
               /\ uncommitted' = [uncommitted EXCEPT ![t] = {}]
               /\ committed' = [committed EXCEPT ![t] = TRUE]
               /\ clock' = clock + 1
               /\ CallUpdate(t, CompletedUpdate(clock, created_listings[t], errors[t]),
                             "finally")
               /\ exc' = exc
          ELSE /\ exc' = [exc EXCEPT ![t] = "commit failed"]
               /\ pc' = [pc EXCEPT ![t] = BatchHandler]
               /\ UNCHANGED <<db_rows, uncommitted, committed, clock, upd, ret>>
    /\ UNCHANGED <<bulk_create_tasks, task_lock, rd, accepted, poll, listings, conn, cursor, i,
                   created_listings, errors, lastrowid, attempts>>


\* lines 125-127: finally: if cursor: cursor.close()
CloseCursor(t) ==
    /\ pc[t] = "finally"
    /\ cursor[t] # "none"
    /\ \E ok \in BOOLEAN :
          IF ok
          THEN /\ cursor' = [cursor EXCEPT ![t] = "closed"]
               /\ pc' = [pc EXCEPT ![t] = "close_conn"]
               /\ exc' = exc
          ELSE /\ cursor' = [cursor EXCEPT ![t] = "close_failed"]
               /\ exc' = [exc EXCEPT ![t] = "cursor.close failed"]
               /\ pc' = [pc EXCEPT ![t] = FinallyHandler]
    /\ UNCHANGED <<bulk_create_tasks, task_lock, upd, ret, clock, rd, accepted, poll, listings, conn,
                   i, created_listings, errors, lastrowid, uncommitted, db_rows,
                   committed, attempts>>

\* lines 128-129: if conn: conn.close(); closing without a commit rolls back
CloseConn(t) ==
    /\ \/ pc[t] = "close_conn"
       \/ pc[t] = "finally" /\ cursor[t] = "none"
    /\ conn[t] # "none"
    /\ \E ok \in BOOLEAN :
          IF ok
          THEN /\ conn' = [conn EXCEPT ![t] = "closed"]
               /\ uncommitted' = [uncommitted EXCEPT ![t] = {}]
               /\ pc' = [pc EXCEPT ![t] = AfterFinally(exc[t])]
               /\ exc' = exc
          ELSE /\ conn' = [conn EXCEPT ![t] = "close_failed"]
               /\ exc' = [exc EXCEPT ![t] = "conn.close failed"]
               /\ pc' = [pc EXCEPT ![t] = FinallyHandler]
               /\ uncommitted' = uncommitted
    /\ UNCHANGED <<bulk_create_tasks, task_lock, upd, ret, clock, rd, accepted, poll, listings, cursor,
                   i, created_listings, errors, lastrowid, db_rows, committed, attempts>>

\* the finally block when get_connection raised: conn and cursor are None
FinallyNothing(t) ==
    /\ pc[t] = "finally"
    /\ cursor[t] = "none"
    /\ conn[t] = "none"
    /\ pc' = [pc EXCEPT ![t] = AfterFinally(exc[t])]
    /\ UNCHANGED <<bulk_create_tasks, task_lock, upd, ret, clock, rd, accepted, poll, workerVars>>

\* lines 131-138: except Exception as e: the failed update
Except(t) ==
    /\ pc[t] = "except"
    /\ clock' = clock + 1
    /\ CallUpdate(t, FailedUpdate(clock, exc[t]), "done")
    /\ UNCHANGED <<bulk_create_tasks, task_lock, rd, accepted, poll, workerVars>>

process_bulk_create_listings(t) ==
    \/ BeginWorker(t)
    \/ update_bulk_create_task(t)
    \/ GetConnection(t)
    \/ OpenCursor(t)
    \/ ProcessItem(t)
    \/ Commit(t)
    \/ CloseCursor(t)
    \/ CloseConn(t)
    \/ FinallyNothing(t)
    \/ Except(t)

\* ------------------------------------------- GET /bulk-create/task/{task_id}
\* faulty variant: a lookup that hands out a record for any id
get_bulk_create_task_default(tasks, t) == Some(t)

\* get_bulk_create_task: `with _task_lock: return _bulk_create_tasks.get(task_id)`
\* returns the stored object itself, or None
get_bulk_create_task(tasks, t) == IF t \in DOMAIN tasks THEN Some(t) ELSE None

\* what the holder of a value returned by get sees when it reads the value
Held(tasks, t) == tasks[t]

\* faulty variant: the lookup counts the polls in the record it returns
get_bulk_create_task_status_counting(t) ==
    /\ rd.st = "idle"
    /\ task_lock = "free"
    /\ rd' = IF IsSet(get_bulk_create_task(bulk_create_tasks, t))
             THEN [st |-> "reading", ref |-> t, k |-> 0, view |-> << >>]
             ELSE [st |-> "not_found", ref |-> t, k |-> 0, view |-> << >>]
    /\ bulk_create_tasks' =
          IF t \in DOMAIN bulk_create_tasks
          THEN setattr_task(bulk_create_tasks, t, "message",
                            [bulk_create_tasks[t].message EXCEPT !.pct = @ + 1])
          ELSE bulk_create_tasks
    /\ poll' = [poll EXCEPT !.clean = TRUE]
    /\ UNCHANGED <<task_lock, pc, upd, ret, clock, accepted, workerVars>>

\* get_bulk_create_task_status: the lookup, 404 when it returns None
get_bulk_create_task_status(t) ==
    /\ rd.st = "idle"
    /\ task_lock = "free"
    /\ rd' = IF IsSet(get_bulk_create_task(bulk_create_tasks, t))
             THEN [st |-> "reading", ref |-> t, k |-> 0, view |-> << >>]
             ELSE [st |-> "not_found", ref |-> t, k |-> 0, view |-> << >>]
    /\ poll' = [poll EXCEPT !.clean = TRUE]
    /\ UNCHANGED <<bulk_create_tasks, task_lock, pc, upd, ret, clock, accepted,
                   workerVars>>

\* the response model is serialised from the returned object, field by field,
\* after the lock was released
ReadField(t) ==
    /\ rd.st = "reading"
    /\ rd.ref = t
    /\ rd.k < Len(Fields)
    /\ LET f == Fields[rd.k + 1]
       IN  rd' = [rd EXCEPT !.k = @ + 1,
                            !.view = [g \in (DOMAIN rd.view) \cup {f} |->
                                         IF g = f THEN Held(bulk_create_tasks, t)[f]
                                         ELSE rd.view[g]]]
    /\ UNCHANGED <<bulk_create_tasks, task_lock, pc, upd, ret, clock, accepted, poll, workerVars>>

\* the response (200 with the serialised record, or 404) is sent
SendStatus ==
    /\ \/ rd.st = "reading" /\ rd.k = Len(Fields)
       \/ rd.st = "not_found"
    /\ rd' = Idle
    /\ poll' = IF poll.clean
               THEN [poll EXCEPT !.last = Some([ref |-> rd.ref, st |-> rd.st,
                                                view |-> rd.view])]
               ELSE poll
    /\ UNCHANGED <<bulk_create_tasks, task_lock, pc, upd, ret, clock, accepted,
                   workerVars>>

\* ---------------------------------------------------------- specification
\* concurrent batches, their workers interleaved
Next ==
    \/ \E t \in TaskIds, n \in 0..(MaxItems - TotalListings(TaskIds)) :
          bulk_create_listings(t, n)
    \/ \E t \in TaskIds : SendAccepted(t)
    \/ \E t \in TaskIds : process_bulk_create_listings(t)

Spec == Init /\ [][Next]_vars

\* the background task of a submitted batch is run, and runs to its end
FairSpec ==
    /\ Spec
    /\ \A t \in TaskIds :
          WF_vars(SendAccepted(t)) /\ WF_vars(process_bulk_create_listings(t))

\* one batch and a client polling its status (and the status of an unknown id)
ReaderNext ==
    \/ \E t \in TaskIds, n \in 0..MaxItems :
          bulk_create_tasks = << >> /\ bulk_create_listings(t, n)
    \/ \E t \in TaskIds : SendAccepted(t)
    \/ \E t \in TaskIds : process_bulk_create_listings(t)
    \/ \E t \in TaskIds : get_bulk_create_task_status(t)
    \/ \E t \in TaskIds : ReadField(t)
    \/ SendStatus

ReaderSpec == Init /\ [][ReaderNext]_vars

\* batches submitted over HTTP next to workers started for ids nothing was
\* stored under
DirectNext ==
    \/ \E t \in TaskIds, n \in 0..(MaxItems - TotalListings(TaskIds)) :
          bulk_create_listings(t, n)
    \/ \E t \in TaskIds, n \in 0..(MaxItems - TotalListings(TaskIds)) :
          call_process_bulk_create_listings(t, n)
    \/ \E t \in TaskIds : SendAccepted(t)
    \/ \E t \in TaskIds : process_bulk_create_listings(t)

DirectSpec == Init /\ [][DirectNext]_vars


\* ------------------------------------------------------------- properties
Terminal == {"completed", "failed"}

StatusOf(t) ==
    IF t \in DOMAIN bulk_create_tasks THEN bulk_create_tasks[t].status ELSE "absent"

\* no update of t's record is half applied
Settled(t) == t \in DOMAIN bulk_create_tasks /\ task_lock # t

AllowedTransitions ==
    {<<"pending", "processing">>, <<"processing", "completed">>, <<"processing", "failed">>}

\* the indices whose insert failed / succeeded
FailedItems(t) == {attempts[t][j][1] : j \in {x \in DOMAIN attempts[t] : ~attempts[t][x][2]}}
AttemptedItems(t) == {attempts[t][j][1] : j \in DOMAIN attempts[t]}
Elems(seq) == {seq[j] : j \in DOMAIN seq}

\* C1: the stored status of a task only ever changes pending -> processing,
\* processing -> completed or processing -> failed, so never out of completed
\* or failed.
C1_StatusTransitions ==
    [][\A t \in TaskIds :
          (StatusOf(t) # "absent" /\ StatusOf(t)' # StatusOf(t))
             => <<StatusOf(t), StatusOf(t)'>> \in AllowedTransitions]_vars

\* C2: for every stored task whose record is not in the middle of an update,
\* completed_at is set exactly when status is completed or failed.
C2_CompletedAtIffTerminal ==
    \A t \in TaskIds :
       Settled(t) =>
          (IsSet(bulk_create_tasks[t].completed_at) <=> StatusOf(t) \in Terminal)

C2_Witness ==
    \E t \in TaskIds :
       /\ Settled(t)
       /\ StatusOf(t) = "failed"
       /\ IsSet(bulk_create_tasks[t].completed_at)
       /\ pc[t] = "done"

\* C3: once a task is completed, created_count + error_count = number of items
\* submitted, whatever the pattern of insert successes and failures.
C3_CountsAddUp ==
    \A t \in TaskIds :
       (Settled(t) /\ StatusOf(t) = "completed") =>
          /\ IsSet(bulk_create_tasks[t].results)
          /\ LET r == bulk_create_tasks[t].results[1]
             IN  r.created_count + r.error_count = listings[t]

C3_Witness ==
    \E t \in TaskIds :
       /\ Settled(t)
       /\ StatusOf(t) = "completed"
       /\ listings[t] = 2
       /\ bulk_create_tasks[t].results[1].created_count = 1
       /\ bulk_create_tasks[t].results[1].error_count = 1

\* C4: a failed insert does not abort the batch: when the worker has returned
\* and neither acquisition, commit nor release raised, every item was attempted
\* (so every item after a failed one), each failure is in the stored errors
\* list, and the status is completed.
C4_ItemFailureDoesNotAbort ==
    \A t \in TaskIds :
       (pc[t] = "done" /\ exc[t] = "") =>
          /\ StatusOf(t) = "completed"
          /\ AttemptedItems(t) = 0..(listings[t] - 1)
          /\ \A idx \in FailedItems(t) :
                /\ \A j \in (idx + 1)..(listings[t] - 1) : j \in AttemptedItems(t)
                /\ IsSet(bulk_create_tasks[t].errors)
                /\ ItemError(idx, "execute failed") \in Elems(bulk_create_tasks[t].errors[1])

C4_Witness ==
    \E t \in TaskIds :
       /\ pc[t] = "done"
       /\ exc[t] = ""
       /\ attempts[t] = <<(<<0, FALSE>>), (<<1, TRUE>>)>>
       /\ StatusOf(t) = "completed"

\* C5: a response serialised from the record returned by get never shows an
\* update half applied: status completed comes with completed_at and results,
\* status failed with completed_at and errors.
C5_NoTornRead ==
    (rd.st = "reading" /\ rd.k = Len(Fields)) =>
       /\ rd.view["status"] = "completed" =>
             IsSet(rd.view["completed_at"]) /\ IsSet(rd.view["results"])
       /\ rd.view["status"] = "failed" =>
             IsSet(rd.view["completed_at"]) /\ IsSet(rd.view["errors"])

\* C6: the value a caller got from get is a snapshot: while the caller holds
\* it, no later update changes any of its fields.
C6_GetReturnsSnapshot ==
    [][(rd.st = "reading" /\ rd'.st = "reading")
          => Held(bulk_create_tasks, rd.ref)' = Held(bulk_create_tasks, rd.ref)]_vars

\* C7: a task whose status is failed has no insert of its batch committed.
C7_FailedMeansNothingCommitted ==
    \A t \in TaskIds :
       StatusOf(t) = "failed" => {r \in db_rows : r.task = t} = {}

\* C8: when the worker returns after get_connection succeeded, the connection
\* has been closed (the exit paths where conn.close() itself raised aside).
C8_ConnectionReleased ==
    \A t \in TaskIds :
       (pc[t] = "done" /\ conn[t] \notin {"none", "close_failed"}) => conn[t] = "closed"

\* C9: every submitted task eventually has status completed or failed.
C9_EventuallyTerminal ==
    \A t \in TaskIds :
       (t \in DOMAIN bulk_create_tasks) ~> (StatusOf(t) \in Terminal)

C9_Witness ==
    \E t \in TaskIds :
       /\ pc[t] = "done"
       /\ StatusOf(t) \in Terminal
       /\ listings[t] > 0

\* C10: no datastore exception leaves process_bulk_create_listings: an item's
\* exception is an entry of the local errors list, and the worker returns after
\* any other exception with status failed and errors holding that one exception.
C10_NoExceptionEscapes ==
    \A t \in TaskIds :
       /\ pc[t] # "escaped"
       /\ \A idx \in FailedItems(t) : ItemError(idx, "execute failed") \in Elems(errors[t])
       /\ (pc[t] = "done" /\ exc[t] # "") =>
             /\ StatusOf(t) = "failed"
             /\ bulk_create_tasks[t].errors = Some(<<[listing |-> 0, e |-> exc[t]]>>)

C10_Witness ==
    \E t \in TaskIds :
       /\ pc[t] = "done"
       /\ exc[t] = "conn.close failed"
       /\ FailedItems(t) # {}
       /\ StatusOf(t) = "failed"


MessageOf(t) == bulk_create_tasks[t].message

\* C11: after each attempted item, failed inserts included, the stored message
\* is the progress text for k = number of items attempted so far.
C11_ProgressAfterEveryItem ==
    \A t \in TaskIds :
       (pc[t] = "loop" /\ attempts[t] # << >>) =>
          MessageOf(t) = Msg("progress", Len(attempts[t]), listings[t],
                             Percent(Len(attempts[t]), listings[t]), "")

\* C12: the items of a batch are attempted in input order, index 0 first and
\* each index once, and each new progress message of a task shows a larger
\* completed-so-far count than the one it replaces.
C12_InOrderAndIncreasing ==
    /\ [](\A t \in TaskIds : \A j \in DOMAIN attempts[t] : attempts[t][j][1] = j - 1)
    /\ [][\A t \in DOMAIN bulk_create_tasks :
             (/\ MessageOf(t).kind = "progress"
              /\ MessageOf(t)'.kind = "progress"
              /\ MessageOf(t)' # MessageOf(t))
                => MessageOf(t)'.k > MessageOf(t).k]_vars

C12_Witness ==
    \E t \in TaskIds :
       /\ Settled(t)
       /\ attempts[t] = <<(<<0, TRUE>>), (<<1, TRUE>>)>>
       /\ MessageOf(t) = Msg("progress", 2, 2, 1000, "")

\* C13: when the submit handler returns its 202 response the record of the
\* task is stored with status pending and no item has been attempted: the
\* worker has not started.
C13_SubmitDoesNoItemWork ==
    \A t \in TaskIds :
       pc[t] = "respond" =>
          /\ StatusOf(t) = "pending"
          /\ attempts[t] = << >>
          /\ conn[t] = "none"
          /\ upd[t] = NoUpdate

C13_Witness ==
    \E t \in TaskIds :
       /\ pc[t] = "respond"
       /\ listings[t] = 2
       /\ StatusOf(t) = "pending"


\* C14: a status request for a task id that was never submitted is answered
\* not-found, in every state of the store, and leaves no record behind for
\* that id.
C14_UnknownIdNotFound ==
    \A t \in TaskIds :
       pc[t] = "unused" =>
          /\ t \notin DOMAIN bulk_create_tasks
          /\ (rd.st # "idle" /\ rd.ref = t) => rd.st = "not_found"

C14_Witness ==
    /\ rd.st = "not_found"
    /\ pc[rd.ref] = "unused"
    /\ \E t \in TaskIds : StatusOf(t) = "completed"

\* C15: task records are never deleted: the set of stored task ids only
\* grows, and from the moment an id was submitted a lookup of it returns a
\* record, the one record carrying that task id.
C15_RecordsNeverDeleted ==
    /\ [](\A t \in TaskIds :
             pc[t] # "unused" =>
                /\ IsSet(get_bulk_create_task(bulk_create_tasks, t))
                /\ Held(bulk_create_tasks, t).task_id = t)
    /\ [][DOMAIN bulk_create_tasks \subseteq DOMAIN bulk_create_tasks']_vars

C15_Witness ==
    /\ DOMAIN bulk_create_tasks = TaskIds
    /\ \E t \in TaskIds : pc[t] = "done" /\ listings[t] > 0


\* C16: a task has results only while its status is completed: none while it
\* is pending, processing or failed.
C16_ResultsOnlyWhenCompleted ==
    \A t \in TaskIds :
       (Settled(t) /\ StatusOf(t) # "completed") => ~IsSet(bulk_create_tasks[t].results)

\* C17: completed_at is assigned once in the life of a task: once set, no
\* later update changes it.
C17_CompletedAtSetOnce ==
    [][\A t \in DOMAIN bulk_create_tasks :
          IsSet(bulk_create_tasks[t].completed_at) =>
             bulk_create_tasks'[t].completed_at = bulk_create_tasks[t].completed_at]_vars

\* C18: when db_pool.get_connection() raised, the worker returns with status
\* failed, completed_at set, errors holding exactly the one failure
\* description, no results, and no item attempted.
C18_ConnectionFailure ==
    \A t \in TaskIds :
       (pc[t] = "done" /\ exc[t] = "get_connection failed") =>
          /\ StatusOf(t) = "failed"
          /\ IsSet(bulk_create_tasks[t].completed_at)
          /\ bulk_create_tasks[t].errors =
                Some(<<[listing |-> 0, e |-> "get_connection failed"]>>)
          /\ ~IsSet(bulk_create_tasks[t].results)
          /\ attempts[t] = << >>
          /\ db_rows = {r \in db_rows : r.task # t}

C18_Witness ==
    \E t \in TaskIds :
       /\ pc[t] = "done"
       /\ exc[t] = "get_connection failed"
       /\ listings[t] = 2
       /\ StatusOf(t) = "failed"

\* the failure strings expected for the failed attempts, in attempt order
RECURSIVE ExpectedErrors(_)
ExpectedErrors(att) ==
    IF att = << >> THEN << >>
    ELSE IF Head(att)[2] THEN ExpectedErrors(Tail(att))
    ELSE <<[listing |-> Head(att)[1] + 1, e |-> "execute failed"]>>
            \o ExpectedErrors(Tail(att))

StoredErrors(t) ==
    IF IsSet(bulk_create_tasks[t].errors) THEN bulk_create_tasks[t].errors[1] ELSE << >>

\* C19: a completed task has errors absent exactly when no insert failed, and
\* when all N inserts succeeded its results show created_count = N and
\* error_count = 0.
C19_AllSucceeded ==
    \A t \in TaskIds :
       (Settled(t) /\ StatusOf(t) = "completed") =>
          /\ ~IsSet(bulk_create_tasks[t].errors) <=> FailedItems(t) = {}
          /\ FailedItems(t) = {} =>
                /\ bulk_create_tasks[t].results[1].created_count = listings[t]
                /\ bulk_create_tasks[t].results[1].error_count = 0

C19_Witness ==
    \E t \in TaskIds :
       /\ Settled(t)
       /\ StatusOf(t) = "completed"
       /\ attempts[t] = <<(<<0, TRUE>>), (<<1, TRUE>>)>>
       /\ ~IsSet(bulk_create_tasks[t].errors)

\* C20: the errors of a completed task are one 'Listing <i+1>: <reason>' per
\* failed insert and nothing else, in increasing index order, as many as
\* results.error_count.
C20_ErrorsList ==
    \A t \in TaskIds :
       (Settled(t) /\ StatusOf(t) = "completed") =>
          /\ StoredErrors(t) = ExpectedErrors(attempts[t])
          /\ \A j, k \in DOMAIN StoredErrors(t) :
                j < k => StoredErrors(t)[j].listing < StoredErrors(t)[k].listing
          /\ Len(StoredErrors(t)) = bulk_create_tasks[t].results[1].error_count

C20_Witness ==
    \E t \in TaskIds :
       /\ Settled(t)
       /\ StatusOf(t) = "completed"
       /\ attempts[t] = <<(<<0, TRUE>>), (<<1, FALSE>>)>>
       /\ StoredErrors(t) = <<[listing |-> 2, e |-> "execute failed"]>>

\* indexes of the items whose insert returned, in the order they were attempted
RECURSIVE SucceededItems(_)
SucceededItems(att) ==
    IF att = << >> THEN << >>
    ELSE IF Head(att)[2] THEN <<Head(att)[1]>> \o SucceededItems(Tail(att))
         ELSE SucceededItems(Tail(att))

\* ids of the committed rows of a batch
RowsOf(t) == {r.id : r \in {x \in db_rows : x.task = t}}

\* C21: at completion results.created_listings holds exactly one {id, index}
\* entry per item whose insert succeeded and none for a failed item, in
\* increasing index order, index being the item's 0-based input position, each
\* id the id of a row of the batch, and created_count is the list's length.
C21_CreatedListings ==
    \A t \in TaskIds :
        (Settled(t) /\ StatusOf(t) = "completed") =>
            LET res == bulk_create_tasks[t].results[1]
                cl  == res.created_listings
            IN  /\ [j \in DOMAIN cl |-> cl[j].index] = SucceededItems(attempts[t])
                /\ \A j, k \in DOMAIN cl : j < k => cl[j].index < cl[k].index
                /\ \A j \in DOMAIN cl : cl[j].index \in 0..(listings[t] - 1)
                /\ {cl[j].index : j \in DOMAIN cl} \cap FailedItems(t) = {}
                /\ {cl[j].id : j \in DOMAIN cl} = RowsOf(t)
                /\ Cardinality(RowsOf(t)) = Len(cl)
                /\ res.created_count = Len(cl)

\* a completed batch whose first item failed and whose second was created
C21_Witness ==
    \E t \in TaskIds :
        /\ Settled(t)
        /\ StatusOf(t) = "completed"
        /\ attempts[t] = <<<<0, FALSE>>, <<1, TRUE>>>>
        /\ Len(bulk_create_tasks[t].results[1].created_listings) = 1

\* C22: an empty batch whose datastore calls all return ends completed with
\* created_count = 0 and error_count = 0; no item is attempted, no progress
\* percentage is ever computed for it, and it fails only when a datastore call
\* raised.
C22_EmptyBatch ==
    \A t \in TaskIds :
        (t \in DOMAIN bulk_create_tasks /\ listings[t] = 0) =>
            /\ attempts[t] = << >>
            /\ MessageOf(t).kind # "progress"
            /\ ("message" \in DOMAIN upd[t].kw) => upd[t].kw.message.kind # "progress"
            /\ StatusOf(t) = "failed" => exc[t] # ""
            /\ (pc[t] = "done" /\ exc[t] = "") =>
                  /\ StatusOf(t) = "completed"
                  /\ bulk_create_tasks[t].results =
                        Some([created_count |-> 0, error_count |-> 0,
                              created_listings |-> << >>])
                  /\ bulk_create_tasks[t].errors = None

\* an empty batch ran to its end without any datastore call raising
C22_Witness ==
    \E t \in TaskIds :
        /\ t \in DOMAIN bulk_create_tasks
        /\ listings[t] = 0
        /\ pc[t] = "done"
        /\ exc[t] = ""
        /\ conn[t] = "closed"
        /\ StatusOf(t) = "completed"

\* the response of the status call in progress is complete and about to be sent
ResponseReady ==
    \/ rd.st = "reading" /\ rd.k = Len(Fields)
    \/ rd.st = "not_found"

\* C23: a status call that follows another one for the same id, with no write
\* to the store since the first began, returns what the first returned; and no
\* step of a status call changes the store.
C23_IdempotentRead ==
    /\ [](\/ ~(ResponseReady /\ IsSet(poll.last))
          \/ poll.last[1].ref # rd.ref
          \/ /\ poll.last[1].st = rd.st
             /\ poll.last[1].view = rd.view)
    /\ [][rd' # rd => bulk_create_tasks' = bulk_create_tasks]_vars

\* the second of two undisturbed polls of a batch that is being processed
C23_Witness ==
    /\ rd.st = "reading"
    /\ rd.k = Len(Fields)
    /\ IsSet(poll.last)
    /\ poll.last[1].ref = rd.ref
    /\ rd.view.status = "processing"
    /\ rd.view.message.kind = "progress"

\* C24: a step of update_bulk_create_task for an id that is absent from the
\* store leaves the store as it is (no record created, no other record
\* touched) and raises nothing: the caller continues where it would have.
C24_UpdateAbsentIsNoOp ==
    [][\A t \in TaskIds :
          (pc[t] = "update" /\ upd'[t] # upd[t] /\ t \notin DOMAIN bulk_create_tasks) =>
              /\ bulk_create_tasks' = bulk_create_tasks
              /\ exc'[t] = exc[t]
              /\ pc'[t] = IF Len(upd[t].keys) = 1 THEN ret[t] ELSE "update"]_vars

\* a worker ran to its end for an id nothing was stored under, next to a
\* stored batch that is being processed
C24_Witness ==
    \E t, u \in TaskIds :
        /\ t \notin DOMAIN bulk_create_tasks
        /\ pc[t] = "done"
        /\ committed[t]
        /\ StatusOf(u) = "processing"

\* C25: the stored record's task_id is the id it is stored under, and no step
\* changes the task_id or the created_at of a stored record.
C25_IdentityImmutable ==
    /\ [](\A t \in DOMAIN bulk_create_tasks : bulk_create_tasks[t].task_id = t)
    /\ [][\A t \in DOMAIN bulk_create_tasks :
             /\ bulk_create_tasks'[t].task_id = bulk_create_tasks[t].task_id
             /\ bulk_create_tasks'[t].created_at = bulk_create_tasks[t].created_at]_vars

\* a batch went through the processing, progress and completed updates and
\* then through the failed one
C25_Witness ==
    \E t \in TaskIds :
        /\ pc[t] = "done"
        /\ StatusOf(t) = "failed"
        /\ committed[t]
        /\ created_listings[t] # << >>
        /\ bulk_create_tasks[t].task_id = t
        /\ bulk_create_tasks[t].created_at < bulk_create_tasks[t].completed_at[1]

\* C26 as stated: the message of the submit response is the message of the
\* stored pending record, "Bulk creation of <N> listings queued".
C26_ResponseRepeatsStoredMessage ==
    \A t \in TaskIds :
        IsSet(accepted[t]) => accepted[t][1].message = Msg("queued", 0, listings[t], 0, "")

\* C26: the stored pending record carries "Bulk creation of <N> listings
\* queued"; the submit response carries the task id, status pending and its
\* own message, "Bulk creation started. Use GET /bulk-create/task/<task_id> to
\* check progress."
C26_ResponseMessage ==
    \A t \in TaskIds :
        /\ IsSet(accepted[t]) =>
              /\ accepted[t][1].task_id = t
              /\ accepted[t][1].status = "pending"
              /\ accepted[t][1].message = Msg("started", 0, 0, 0, t)
        /\ pc[t] \in {"respond", "queued"} =>
              /\ StatusOf(t) = "pending"
              /\ MessageOf(t) = Msg("queued", 0, listings[t], 0, "")

\* the response of a batch of two was returned, its worker not yet started
C26_Witness ==
    \E t \in TaskIds :
        /\ IsSet(accepted[t])
        /\ pc[t] = "queued"
        /\ listings[t] = 2

\* C27: whenever the stored status is completed, every item was attempted, the
\* batch's commit has returned and the committed rows are exactly the created
\* listings; the rows of a batch reach the datastore in one step, its only
\* commit, taken after the last item was attempted.
C27_CompletedAfterCommit ==
    /\ [](\A t \in TaskIds :
             StatusOf(t) = "completed" =>
                 /\ committed[t]
                 /\ uncommitted[t] = {}
                 /\ Len(attempts[t]) = listings[t]
                 /\ RowsOf(t) = {created_listings[t][j].id : j \in DOMAIN created_listings[t]})
    /\ [][\A t \in TaskIds :
             /\ committed[t] => committed'[t]
             /\ {r \in db_rows' : r.task = t} # {r \in db_rows : r.task = t} =>
                   /\ ~committed[t]
                   /\ committed'[t]
                   /\ i[t] = listings[t]
                   /\ {r.id : r \in {x \in db_rows' : x.task = t}} = uncommitted[t]]_vars

\* a completed batch of two created listings
C27_Witness ==
    \E t \in TaskIds :
        /\ StatusOf(t) = "completed"
        /\ Settled(t)
        /\ Cardinality(RowsOf(t)) = 2

\* C28: the lock is held only by a worker inside update_bulk_create_task with
\* keywords left to apply, never by a worker at a datastore call or asleep; and
\* whenever no worker is inside an update the lock is free, so a status call
\* can take it.
C28_LockOnlyInsideUpdate ==
    /\ task_lock \in {"free"} \cup TaskIds
    /\ \A t \in TaskIds :
          /\ task_lock = t => (pc[t] = "update" /\ upd[t].keys # << >>)
          /\ (\A u \in TaskIds : pc[u] # "update") =>
                ENABLED get_bulk_create_task_status(t)

\* one worker is between two inserts, its connection open, while the other
\* one holds the lock
C28_Witness ==
    \E t, u \in TaskIds :
        /\ pc[t] = "loop"
        /\ conn[t] = "open"
        /\ i[t] = 1
        /\ i[t] < listings[t]
        /\ task_lock = u
        /\ u # t

\* C29: from the moment the submit handler has run, the task's record is in the
\* store: it is still the pending record while the response is sent and the
\* worker is queued, and every worker update finds it.
C29_StoreBeforeFirstUpdate ==
    \A t \in TaskIds :
        /\ pc[t] # "unused" => t \in DOMAIN bulk_create_tasks
        /\ pc[t] \in {"respond", "queued"} => StatusOf(t) = "pending"
        /\ pc[t] = "update" => t \in DOMAIN bulk_create_tasks

\* the worker's first update is being applied to the stored record
C29_Witness ==
    \E t \in TaskIds :
        /\ pc[t] = "update"
        /\ ret[t] = "get_connection"
        /\ task_lock = t
        /\ bulk_create_tasks[t].status = "processing"
        /\ bulk_create_tasks[t].message.kind = "queued"

====
